---- MODULE Spec2Model ----
(***************************************************************************)
(* Patrol API (src/main.py): the patrol_sessions table, the lifecycle      *)
(* endpoints (start_patrol, pause_patrol, end_patrol, photo_time,          *)
(* get_session_id), the inactivity scan (inactive_sessions) with the       *)
(* e-mail tasks it queues, and cleanup_sessions.                           *)
(*                                                                         *)
(* Time is counted in ticks, TicksPerSecond ticks to a second.  now_iso()  *)
(* drops the sub-second part of the clock; the cutoff of a scan or a       *)
(* cleanup keeps it.  A handler that reads the clock and then sends one    *)
(* statement to the table is split at that point (Begin / Apply), since    *)
(* FastAPI serves requests concurrently and the table applies statements   *)
(* one at a time in the order they arrive.                                 *)
(***************************************************************************)
EXTENDS Integers, Sequences, FiniteSets, TLC

\* ---------------------------------------------------------------- bounds
\* Sessions ever created (ids 1..MaxSessions, never reused).
MaxSessions == 3
\* Requests that have read the clock and not yet reached the table.
MaxInflight == 2
\* Clock resolution: ticks per second (the source's clock has microseconds).
TicksPerSecond == 2
\* The clock takes the values m * MinuteTicks + k, m <= MaxMinutes and
\* k <= MaxSubTicks.
MaxMinutes == 1
MaxSubTicks == 1
\* The row limit of the scan's query, .limit(100) at src/main.py:155, scaled
\* to the number of sessions of the model so that the limit is exceeded.
ScanLimit == 2

\* ------------------------------------------------------------- constants
SecondsPerMinute == 60

MinuteTicks == SecondsPerMinute * TicksPerSecond

Minutes == {0, 1}

\* The ids the table assigns.
Ids == 1..MaxSessions

\* The request bodies of start_patrol and get_session_id.  Names are
\* sequences of words: a string with spaces is several words.
Guard(first, last_, sender, receiver) ==
    [first_name |-> first, last_name |-> last_,
     sender_email |-> sender, receiver_email |-> receiver]

StartPatrol ==
    {Guard(<<"Al">>, <<"Doe">>, "a@x", "r@x"),
     Guard(<<"Bo">>, <<"Doe">>, "b@x", "r@x"),
     Guard(<<"Al">>, <<"Doe">>, "a@x", "s@x")}

LookupPatrol == StartPatrol

SummaryRecipient == "shivamminocha84@gmail.com"
GapSubject == "Patrolio: Gap in Patrol Session"
GapBody == "You have been found inactive for the last few minutes. Please keep sending photos."

VARIABLES
    clock,      \* datetime.utcnow(), in ticks
    sessions,   \* table patrol_sessions: id -> row
    nextId,     \* the next id the table assigns
    inflight,   \* requests that read the clock, statement not yet applied
    last,       \* the last completed request: its locals and its response
    prev        \* when last is a scan: Summary of the request completed before it

vars == <<clock, sessions, nextId, inflight, last, prev>>

\* ---------------------------------------------------------------- helpers
Min(a, b) == IF a < b THEN a ELSE b

\* now_iso(): the clock without its sub-second part, on the tick scale.
now_iso == (clock \div TicksPerSecond) * TicksPerSecond

\* datetime.utcnow() - timedelta(minutes=minutes): sub-second part kept.
Cutoff(minutes) == clock - minutes * MinuteTicks

\* Sequences over S of length n without repetition.
Arrangements(S, n) ==
    {q \in [1..n -> S] : \A a, b \in 1..n : a # b => q[a] # q[b]}

Range(q) == {q[k] : k \in DOMAIN q}

\* What a scan remembers of the request completed just before it: when that
\* was a scan with the same threshold at the same clock value, its count.
Summary(r, minutes) ==
    IF /\ r.op = "inactive_sessions"
       /\ r.minutes = minutes
       /\ r.now = clock
    THEN [op |-> r.op, count |-> r.response.expired_sessions_count]
    ELSE [op |-> "none"]

NotFound(op, detail) == [op |-> op, status_code |-> 404, detail |-> detail]

Init ==
    /\ clock = 0
    /\ sessions = <<>>
    /\ nextId = 1
    /\ inflight = {}
    /\ last = [op |-> "none"]
    /\ prev = [op |-> "none"]

\* The clock advances by one tick or by a whole minute, within
\* MaxMinutes minutes and MaxSubTicks ticks past the minute.
Tick ==
    /\ \E d \in {1, MinuteTicks} :
          /\ d = 1 => clock % MinuteTicks < MaxSubTicks
          /\ d = MinuteTicks => clock \div MinuteTicks < MaxMinutes
          /\ clock' = clock + d
    /\ UNCHANGED <<sessions, nextId, inflight, last, prev>>

\* ------------------------------------------------------------ start_patrol
\* The insert's dictionary is built field by field: "start_time": now_iso()
\* is evaluated first.
StartPatrolBegin(data) ==
    /\ Cardinality(inflight) < MaxInflight
    /\ nextId + Cardinality({r \in inflight : r.op = "start_patrol"}) <= MaxSessions
    /\ inflight' = inflight \cup
          {[op |-> "start_patrol", data |-> data, start_time |-> now_iso]}
    /\ UNCHANGED <<clock, sessions, nextId, last, prev>>

\* Mutant: the two timestamps are stored in each other's column.
StartPatrolInsertSwapped(r) ==
    /\ r \in inflight
    /\ r.op = "start_patrol"
    /\ LET row == [id |-> nextId,
                   first_name |-> r.data.first_name,
                   last_name |-> r.data.last_name,
                   sender_email |-> r.data.sender_email,
                   receiver_email |-> r.data.receiver_email,
                   start_time |-> now_iso,
                   photo_time |-> r.start_time,
                   status |-> "active"]
       IN /\ sessions' = sessions @@ (nextId :> row)
          /\ last' = [op |-> "start_patrol", status_code |-> 200,
                      response |-> [message |-> "patrol started", data |-> row]]
    /\ nextId' = nextId + 1
    /\ inflight' = inflight \ {r}
    /\ prev' = [op |-> "none"]
    /\ UNCHANGED clock

\* "photo_time": now_iso() is the second clock read; then the row is inserted
\* and the table assigns its id.
StartPatrolInsert(r) ==
    /\ r \in inflight
    /\ r.op = "start_patrol"
    /\ LET row == [id |-> nextId,
                   first_name |-> r.data.first_name,
                   last_name |-> r.data.last_name,
                   sender_email |-> r.data.sender_email,
                   receiver_email |-> r.data.receiver_email,
                   start_time |-> r.start_time,
                   photo_time |-> now_iso,
                   status |-> "active"]
       IN /\ sessions' = sessions @@ (nextId :> row)
          /\ last' = [op |-> "start_patrol", status_code |-> 200,
                      response |-> [message |-> "patrol started", data |-> row]]
    /\ nextId' = nextId + 1
    /\ inflight' = inflight \ {r}
    /\ prev' = [op |-> "none"]
    /\ UNCHANGED clock

\* ------------------------------------------------------------ pause_patrol
\* update({"photo_time": now_iso()}): the clock is read when the statement
\* is built.
PausePatrolBegin(session_id) ==
    /\ Cardinality(inflight) < MaxInflight
    /\ inflight' = inflight \cup
          {[op |-> "pause_patrol", session_id |-> session_id, photo_time |-> now_iso]}
    /\ UNCHANGED <<clock, sessions, nextId, last, prev>>

\* Mutant: upsert in place of update, a missing row is written anew.
PausePatrolUpsert(r) ==
    /\ r \in inflight
    /\ r.op = "pause_patrol"
    /\ LET row == IF r.session_id \in DOMAIN sessions
                  THEN [sessions[r.session_id] EXCEPT !.photo_time = r.photo_time]
                  ELSE [id |-> r.session_id, first_name |-> <<>>, last_name |-> <<>>,
                        sender_email |-> "", receiver_email |-> "",
                        start_time |-> r.photo_time, photo_time |-> r.photo_time,
                        status |-> "active"]
       IN /\ sessions' = [i \in DOMAIN sessions \cup {r.session_id} |->
                             IF i = r.session_id THEN row ELSE sessions[i]]
          /\ last' = [op |-> "pause_patrol", status_code |-> 200,
                      response |-> [message |-> "photo_time updated", data |-> row]]
    /\ inflight' = inflight \ {r}
    /\ prev' = [op |-> "none"]
    /\ UNCHANGED <<clock, nextId>>

\* Mutant: the update writes start_time along with photo_time.
PausePatrolRestart(r) ==
    /\ r \in inflight
    /\ r.op = "pause_patrol"
    /\ IF r.session_id \in DOMAIN sessions
       THEN /\ sessions' = [sessions EXCEPT ![r.session_id].photo_time = r.photo_time,
                                            ![r.session_id].start_time = r.photo_time]
            /\ last' = [op |-> "pause_patrol", status_code |-> 200,
                        response |-> [message |-> "photo_time updated",
                                      data |-> sessions'[r.session_id]]]
       ELSE /\ sessions' = sessions
            /\ last' = NotFound("pause_patrol", "session not found")
    /\ inflight' = inflight \ {r}
    /\ prev' = [op |-> "none"]
    /\ UNCHANGED <<clock, nextId>>

\* .eq("id", session_id).execute(): the table updates the rows with that id
\* and returns them; no row, 404.
PausePatrolApply(r) ==
    /\ r \in inflight
    /\ r.op = "pause_patrol"
    /\ IF r.session_id \in DOMAIN sessions
       THEN /\ sessions' = [sessions EXCEPT ![r.session_id].photo_time = r.photo_time]
            /\ last' = [op |-> "pause_patrol", status_code |-> 200,
                        response |-> [message |-> "photo_time updated",
                                      data |-> sessions'[r.session_id]]]
       ELSE /\ sessions' = sessions
            /\ last' = NotFound("pause_patrol", "session not found")
    /\ inflight' = inflight \ {r}
    /\ prev' = [op |-> "none"]
    /\ UNCHANGED <<clock, nextId>>

\* -------------------------------------------------------------- end_patrol
\* Mutant: the row is kept and marked ended in place of being deleted.
end_patrol_marking(session_id) ==
    /\ IF session_id \in DOMAIN sessions
       THEN /\ sessions' = [sessions EXCEPT ![session_id].status = "ended"]
            /\ last' = [op |-> "end_patrol", status_code |-> 200,
                        response |-> [message |-> "patrol ended",
                                      data |-> [id |-> session_id]]]
       ELSE /\ sessions' = sessions
            /\ last' = NotFound("end_patrol", "session not found")
    /\ prev' = [op |-> "none"]
    /\ UNCHANGED <<clock, nextId, inflight>>

\* delete().eq("id", session_id): the deleted row is returned; the response
\* keeps its id.
end_patrol(session_id) ==
    /\ IF session_id \in DOMAIN sessions
       THEN /\ sessions' = [i \in DOMAIN sessions \ {session_id} |-> sessions[i]]
            /\ last' = [op |-> "end_patrol", status_code |-> 200,
                        response |-> [message |-> "patrol ended",
                                      data |-> [id |-> session_id]]]
       ELSE /\ sessions' = sessions
            /\ last' = NotFound("end_patrol", "session not found")
    /\ prev' = [op |-> "none"]
    /\ UNCHANGED <<clock, nextId, inflight>>

\* ---------------------------------------------------------- get_photo_time
get_photo_time(session_id) ==
    /\ IF session_id \in DOMAIN sessions
       THEN last' = [op |-> "get_photo_time", status_code |-> 200,
                     response |-> [session_id |-> session_id,
                                   photo_time |-> sessions[session_id].photo_time]]
       ELSE last' = NotFound("get_photo_time", "session not found")
    /\ prev' = [op |-> "none"]
    /\ UNCHANGED <<clock, sessions, nextId, inflight>>

\* ---------------------------------------------------------- get_session_id
\* Mutant: the filter on receiver_email is missing.
LookupMatchesNoReceiver(query) ==
    {i \in DOMAIN sessions :
        /\ sessions[i].first_name = query.first_name
        /\ sessions[i].last_name = query.last_name
        /\ sessions[i].sender_email = query.sender_email
        /\ sessions[i].status = "active"}

\* The rows the select with its five .eq filters matches.
LookupMatches(query) ==
    {i \in DOMAIN sessions :
        /\ sessions[i].first_name = query.first_name
        /\ sessions[i].last_name = query.last_name
        /\ sessions[i].sender_email = query.sender_email
        /\ sessions[i].receiver_email = query.receiver_email
        /\ sessions[i].status = "active"}

\* response.data[0]: the select has no order, so any matching row can be
\* the first.
get_session_id(query) ==
    /\ IF LookupMatches(query) = {}
       THEN last' = [op |-> "get_session_id", status_code |-> 404,
                     query |-> query, detail |-> "no matching session found"]
       ELSE \E i \in LookupMatches(query) :
               last' = [op |-> "get_session_id", status_code |-> 200,
                        query |-> query,
                        response |-> [session_id |-> i, data |-> sessions[i]]]
    /\ prev' = [op |-> "none"]
    /\ UNCHANGED <<clock, sessions, nextId, inflight>>

\* ------------------------------------------------------- inactive_sessions
\* Mutant: .lte in place of .lt.
StaleIdsLte(cutoff) ==
    {i \in DOMAIN sessions :
        /\ sessions[i].photo_time <= cutoff
        /\ sessions[i].status = "active"}

\* Mutant: the query leaves out the rows the scan just before returned
\* (suppression of sessions already notified).
StaleIdsNotYetNotified(cutoff) ==
    {i \in DOMAIN sessions :
        /\ sessions[i].photo_time < cutoff
        /\ sessions[i].status = "active"
        /\ ~(/\ last.op = "inactive_sessions"
              /\ \E k \in DOMAIN last.expired_sessions :
                    last.expired_sessions[k].id = i)}

\* The ids the query's filters select: .lt("photo_time", cutoff) and
\* .eq("status", "active").
StaleIds(cutoff) ==
    {i \in DOMAIN sessions :
        /\ sessions[i].photo_time < cutoff
        /\ sessions[i].status = "active"}

\* .limit(100).execute() on a select without order: any ScanLimit of the
\* selected rows (all of them when there are fewer), in any order.
LimitedResults(ids) == Arrangements(ids, Min(ScanLimit, Cardinality(ids)))

\* select("id, first_name, last_name, sender_email"): the columns of a row.
SelectedColumns(i) ==
    [id |-> sessions[i].id,
     first_name |-> sessions[i].first_name,
     last_name |-> sessions[i].last_name,
     sender_email |-> sessions[i].sender_email]

\* f"{first_name} {last_name} ({sender_email})", as a sequence of words.
SummaryLine(s) == s.first_name \o s.last_name \o <<"(", s.sender_email, ")">>

\* Mutant: the summary lists the first row only.
BackgroundTasksFirstRow(minutes, expired_sessions) ==
    LET sender_emails ==
            {expired_sessions[k].sender_email : k \in DOMAIN expired_sessions}
    IN  (IF sender_emails # {}
         THEN <<[to |-> sender_emails, subject |-> GapSubject, body |-> GapBody]>>
         ELSE <<>>)
        \o
        (IF expired_sessions # <<>>
         THEN <<[to |-> {SummaryRecipient},
                 subject |-> <<"Patrolio: Inactive Sessions", minutes>>,
                 body |-> <<SummaryLine(expired_sessions[1])>>]>>
         ELSE <<>>)

\* The background tasks one scan adds: send_email(to, subject, body).
BackgroundTasks(minutes, expired_sessions) ==
    LET sender_emails ==
            {expired_sessions[k].sender_email : k \in DOMAIN expired_sessions}
        summary_lines ==
            [k \in DOMAIN expired_sessions |-> SummaryLine(expired_sessions[k])]
    IN  (IF sender_emails # {}
         THEN <<[to |-> sender_emails, subject |-> GapSubject, body |-> GapBody]>>
         ELSE <<>>)
        \o
        (IF expired_sessions # <<>>
         THEN <<[to |-> {SummaryRecipient},
                 subject |-> <<"Patrolio: Inactive Sessions", minutes>>,
                 body |-> summary_lines]>>
         ELSE <<>>)

\* The scan's response.
ScanResponse(minutes, expired_sessions) ==
    [minutes_threshold |-> minutes,
     expired_sessions_count |-> Len(expired_sessions)]

\* Mutant: the scan deletes the rows it reports.
inactive_sessions_deleting(minutes) ==
    /\ UNCHANGED <<clock, nextId, inflight>>
    /\ prev' = Summary(last, minutes)
    /\ LET cutoff == Cutoff(minutes)
       IN \E data \in LimitedResults(StaleIds(cutoff)) :
             LET expired_sessions == [k \in DOMAIN data |-> SelectedColumns(data[k])]
                 background_tasks == BackgroundTasks(minutes, expired_sessions)
             IN /\ sessions' = [i \in DOMAIN sessions \ Range(data) |-> sessions[i]]
                /\ last' = [op |-> "inactive_sessions", status_code |-> 200,
                            minutes |-> minutes, now |-> clock, cutoff |-> cutoff,
                            expired_sessions |-> expired_sessions,
                            background_tasks |-> background_tasks,
                            response |-> ScanResponse(minutes, expired_sessions)]

inactive_sessions(minutes) ==
    /\ UNCHANGED <<clock, sessions, nextId, inflight>>
    /\ prev' = Summary(last, minutes)
    /\ LET cutoff == Cutoff(minutes)
       IN \E data \in LimitedResults(StaleIds(cutoff)) :
             LET expired_sessions == [k \in DOMAIN data |-> SelectedColumns(data[k])]
                 background_tasks == BackgroundTasks(minutes, expired_sessions)
             IN last' = [op |-> "inactive_sessions", status_code |-> 200,
                         minutes |-> minutes, now |-> clock, cutoff |-> cutoff,
                         expired_sessions |-> expired_sessions,
                         background_tasks |-> background_tasks,
                         response |-> ScanResponse(minutes, expired_sessions)]

\* -------------------------------------------------------- cleanup_sessions
\* Mutant: .lte in place of .lt.
CleanupIdsLte(cutoff) == {i \in DOMAIN sessions : sessions[i].photo_time <= cutoff}

\* delete().lt("photo_time", cutoff): the rows deleted, whatever their status
\* (the response names them by id).
CleanupIds(cutoff) == {i \in DOMAIN sessions : sessions[i].photo_time < cutoff}

cleanup_sessions(minutes) ==
    /\ LET deleted == CleanupIds(Cutoff(minutes))
       IN /\ sessions' = [i \in DOMAIN sessions \ deleted |-> sessions[i]]
          /\ last' = [op |-> "cleanup_sessions", status_code |-> 200,
                      minutes |-> minutes, cutoff |-> Cutoff(minutes),
                      response |-> [minutes_threshold |-> minutes,
                                    deleted_count |-> Cardinality(deleted),
                                    deleted_sessions |-> deleted]]
    /\ prev' = [op |-> "none"]
    /\ UNCHANGED <<clock, nextId, inflight>>

Next ==
    \/ Tick
    \/ \E data \in StartPatrol : StartPatrolBegin(data)
    \/ \E r \in inflight : StartPatrolInsert(r)
    \/ \E session_id \in 1..(nextId - 1) : PausePatrolBegin(session_id)
    \/ \E r \in inflight : PausePatrolApply(r)
    \/ \E session_id \in 1..(nextId - 1) : end_patrol(session_id)
    \/ \E session_id \in 1..(nextId - 1) : get_photo_time(session_id)
    \/ \E query \in LookupPatrol : get_session_id(query)
    \/ \E minutes \in Minutes : inactive_sessions(minutes)
    \/ \E minutes \in Minutes : cleanup_sessions(minutes)

Spec == Init /\ [][Next]_vars
\* Every run eventually serves a scan again: the periodic caller keeps
\* triggering inactive_sessions.
FairSpec == Spec /\ WF_vars(\E minutes \in Minutes : inactive_sessions(minutes))

\* ------------------------------------------------ the queued e-mail tasks
\* The tasks a scan queued run after its response was sent, one after the
\* other in the order they were added.  send_email catches ApiException and
\* returns; any other exception leaves it and ends the run.  The result is
\* the set of numbers of tasks that can get called: all of them, or those up
\* to one that raised.
TasksCalled(background_tasks) ==
    {n \in 0..Len(background_tasks) : n = Len(background_tasks) \/ n >= 1}

\* The run of a scan's tasks; the number of tasks called is recorded with
\* the scan.
RunBackgroundTasks ==
    /\ last.op = "inactive_sessions"
    /\ "tasks_called" \notin DOMAIN last
    /\ \E tasks_called \in TasksCalled(last.background_tasks) :
          last' = [op |-> last.op, status_code |-> last.status_code,
                   minutes |-> last.minutes, now |-> last.now,
                   cutoff |-> last.cutoff,
                   expired_sessions |-> last.expired_sessions,
                   background_tasks |-> last.background_tasks,
                   response |-> last.response,
                   tasks_called |-> tasks_called]
    /\ UNCHANGED <<clock, sessions, nextId, inflight, prev>>

\* The API together with the runs of the queued tasks.
DispatchSpec == Init /\ [][Next \/ RunBackgroundTasks]_vars

\* ------------------------------------------------------------------ claims
\* The state right after a scan: the table is as the scan read it.
ScanDone == last.op = "inactive_sessions"

\* A session is eligible for a scan: Active and last heartbeat strictly
\* before the cutoff.
Eligible(cutoff) ==
    {i \in DOMAIN sessions :
        sessions[i].status = "active" /\ sessions[i].photo_time < cutoff}

ExpiredIds == {last.expired_sessions[k].id : k \in DOMAIN last.expired_sessions}

DirectTasks == SelectSeq(last.background_tasks, LAMBDA t : t.subject = GapSubject)
GroupedTasks == SelectSeq(last.background_tasks, LAMBDA t : t.subject # GapSubject)

\* The display string of a guard: name and sender email.
GuardLine(s) == s.first_name \o s.last_name \o <<"(", s.sender_email, ")">>

\* C1: after a scan with a non-empty expired set there is exactly one grouped
\* notification per distinct receiver_email of the expired sessions, addressed
\* to that receiver and listing exactly the guards of the expired sessions
\* with that receiver.
C1_GroupedPerReceiver ==
    (ScanDone /\ last.expired_sessions # <<>>) =>
        LET receivers == {sessions[i].receiver_email : i \in ExpiredIds}
        IN /\ Len(GroupedTasks) = Cardinality(receivers)
           /\ \A r \in receivers :
                 Cardinality({k \in DOMAIN GroupedTasks :
                     /\ GroupedTasks[k].to = {r}
                     /\ Range(GroupedTasks[k].body) =
                           {GuardLine(sessions[i]) :
                               i \in {j \in ExpiredIds : sessions[j].receiver_email = r}}
                   }) = 1

\* C2: after a scan the number of direct notifications equals the number of
\* expired sessions, each addressed to one session's sender_email only.
C2_DirectPerSession ==
    ScanDone =>
        /\ Len(DirectTasks) = Len(last.expired_sessions)
        /\ \A k \in DOMAIN DirectTasks : Cardinality(DirectTasks[k].to) = 1
        /\ \A k \in DOMAIN last.expired_sessions :
              \E j \in DOMAIN DirectTasks :
                  DirectTasks[j].to = {last.expired_sessions[k].sender_email}

\* C3: no grouped notification body lists the same display string twice.
C3_NoDoubleListing ==
    ScanDone =>
        \A k \in DOMAIN GroupedTasks :
            \A a, b \in DOMAIN GroupedTasks[k].body :
                a # b => GroupedTasks[k].body[a] # GroupedTasks[k].body[b]

\* C4: the scan's result has exactly four entries: the threshold, the number
\* of expired sessions, the number of direct notifications queued and the
\* number of grouped notifications queued.
C4_ResultFields ==
    ScanDone =>
        /\ {"minutes_threshold", "expired_sessions_count"} \subseteq DOMAIN last.response
        /\ last.response.minutes_threshold = last.minutes
        /\ last.response.expired_sessions_count = Len(last.expired_sessions)
        /\ \E d, g \in DOMAIN last.response
                 \ {"minutes_threshold", "expired_sessions_count"} :
              /\ d # g
              /\ DOMAIN last.response =
                    {"minutes_threshold", "expired_sessions_count", d, g}
              /\ last.response[d] = Len(DirectTasks)
              /\ last.response[g] = Len(GroupedTasks)

\* C5: the expired set of scan(t) holds only Active sessions with
\* last_heartbeat < now - t, each once; all of them when there are at most
\* ScanLimit; and the count returned is their number, or ScanLimit when
\* there are more.
C5_ExpiredSet ==
    ScanDone =>
        LET eligible == Eligible(last.now - last.minutes * MinuteTicks)
        IN /\ ExpiredIds \subseteq eligible
           /\ Cardinality(ExpiredIds) = Len(last.expired_sessions)
           /\ Cardinality(eligible) <= ScanLimit => ExpiredIds = eligible
           /\ last.response.expired_sessions_count =
                 IF Cardinality(eligible) <= ScanLimit
                 THEN Cardinality(eligible) ELSE ScanLimit

\* A scan found one session expired and left a fresher Active one out.
C5_Witness ==
    /\ ScanDone
    /\ last.response.expired_sessions_count = 1
    /\ \E i \in DOMAIN sessions : i \notin Eligible(last.cutoff)

\* C6: a scan that directly follows a scan with the same threshold at the
\* same clock value returns the same expired count, and queues its
\* notifications again.
C6_SameCount ==
    (ScanDone /\ prev.op = "inactive_sessions") =>
        /\ last.response.expired_sessions_count = prev.count
        /\ prev.count > 0 => last.background_tasks # <<>>

\* The second of two such scans, with expired sessions.
C6_Witness ==
    /\ ScanDone
    /\ prev.op = "inactive_sessions"
    /\ prev.count > 0

\* A scan's notification plan covers session i: its sender is a recipient of
\* a direct notification and its guard line is in a grouped notification.
Covered(i) ==
    /\ \E k \in DOMAIN DirectTasks : sessions[i].sender_email \in DirectTasks[k].to
    /\ \E k \in DOMAIN GroupedTasks :
          GuardLine(sessions[i]) \in Range(GroupedTasks[k].body)

\* C7, as claimed: every scan covers every session that is Active with
\* last_heartbeat below the scan's cutoff.
C7_EveryStaleCovered ==
    ScanDone => \A i \in Eligible(last.cutoff) : Covered(i)

\* C7, amended: every scan covers every session that is Active with
\* last_heartbeat below the scan's cutoff when at most ScanLimit sessions are
\* so, whatever the scans before it did.
C7_StaleCoveredWithinLimit ==
    (ScanDone /\ Cardinality(Eligible(last.cutoff)) <= ScanLimit) =>
        \A i \in Eligible(last.cutoff) : Covered(i)

\* A scan covers two sessions that the scan just before it, with the same
\* threshold at the same clock value, had both found expired.
C7_Witness ==
    /\ ScanDone
    /\ prev.op = "inactive_sessions"
    /\ prev.count = 2
    /\ Cardinality(Eligible(last.cutoff)) = 2
    /\ \A i \in Eligible(last.cutoff) : Covered(i)
\* Session i is stale for every scan that can be triggered now: Active, with
\* last_heartbeat below the cutoff of every threshold.
StaysStale(i) ==
    /\ i \in DOMAIN sessions
    /\ sessions[i].status = "active"
    /\ \A minutes \in Minutes : sessions[i].photo_time < Cutoff(minutes)

\* A scan left session i out although it was eligible.
LeftOut(i) == ScanDone /\ i \in Eligible(last.cutoff) /\ i \notin ExpiredIds

\* C8: a session that a scan left out because of the row limit is in the
\* expired set of some later scan, unless it stops being stale.
C8_LeftOutIncludedLater ==
    \A i \in Ids :
        [](LeftOut(i) => <>((ScanDone /\ i \in ExpiredIds) \/ ~StaysStale(i)))

\* C9: right after start_patrol the session's photo_time equals its
\* start_time and its status is Active.
C9_CreatedAtOneInstant ==
    last.op = "start_patrol" =>
        LET s == sessions[last.response.data.id]
        IN /\ s.photo_time = s.start_time
           /\ s.status = "active"

\* C10: no step lowers the photo_time of a session.
C10_HeartbeatMonotone ==
    [][\A i \in DOMAIN sessions \cap DOMAIN sessions' :
          sessions'[i].photo_time >= sessions[i].photo_time]_vars
\* C11: every stored session has photo_time >= start_time.
C11_HeartbeatNotBeforeStart ==
    \A i \in DOMAIN sessions : sessions[i].photo_time >= sessions[i].start_time

\* A heartbeat moved a session's photo_time past its start_time.
C11_Witness ==
    /\ last.op = "pause_patrol"
    /\ last.status_code = 200
    /\ last.response.data.id \in DOMAIN sessions
    /\ sessions[last.response.data.id].photo_time
          > sessions[last.response.data.id].start_time

\* C12: a session that was deleted is in no later state of the table, and a
\* heartbeat applied for its id, also one that was in flight when it was
\* deleted, ends in 404.
C12_NeverRevived ==
    [][\A i \in 1..(nextId - 1) :
          i \notin DOMAIN sessions =>
              /\ i \notin DOMAIN sessions'
              /\ \A r \in inflight :
                    (r.op = "pause_patrol" /\ r.session_id = i /\ r \notin inflight')
                        => (last'.op = "pause_patrol" /\ last'.status_code = 404)]_vars

\* A heartbeat for a deleted session was applied and answered 404, and the
\* session is still gone.
C12_Witness ==
    /\ last.op = "pause_patrol"
    /\ last.status_code = 404
    /\ \E i \in 1..(nextId - 1) : i \notin DOMAIN sessions

\* C13: a cleanup step deletes exactly the sessions with photo_time before
\* now - t, returns exactly them and their number, and leaves every other
\* session in the table as it was.
C13_CleanupExact ==
    [][(last'.op = "cleanup_sessions" /\ last' # last) =>
          LET old == {i \in DOMAIN sessions :
                         sessions[i].photo_time < clock - last'.minutes * MinuteTicks}
          IN /\ DOMAIN sessions' = DOMAIN sessions \ old
             /\ last'.response.deleted_sessions = old
             /\ last'.response.deleted_count = Cardinality(old)
             /\ \A i \in DOMAIN sessions' : sessions'[i] = sessions[i]]_vars

\* A cleanup deleted a session and kept another.
C13_Witness ==
    /\ last.op = "cleanup_sessions"
    /\ last.response.deleted_count >= 1
    /\ sessions # <<>>

\* The Active sessions that have all four identity fields of a query.
IdentityMatches(query) ==
    {i \in DOMAIN sessions :
        /\ sessions[i].status = "active"
        /\ <<sessions[i].first_name, sessions[i].last_name,
             sessions[i].sender_email, sessions[i].receiver_email>>
           = <<query.first_name, query.last_name,
               query.sender_email, query.receiver_email>>}

\* C14: get_session_id answers 404 exactly when no Active session matches all
\* four identity fields, and otherwise returns a stored Active session that
\* matches them.
C14_LookupByIdentity ==
    last.op = "get_session_id" =>
        /\ last.status_code = 404 <=> IdentityMatches(last.query) = {}
        /\ last.status_code = 200 =>
              /\ last.response.session_id \in IdentityMatches(last.query)
              /\ last.response.data = sessions[last.response.session_id]

\* A lookup ended in 404 although a stored session has the query's sender (it
\* differs in another field).
C14_Witness ==
    /\ last.op = "get_session_id"
    /\ last.status_code = 404
    /\ \E i \in DOMAIN sessions : sessions[i].sender_email = last.query.sender_email

\* C15: two lookups of the same identity on the same table return the same
\* session.
C15_LookupDeterministic ==
    [][(/\ last.op = "get_session_id" /\ last.status_code = 200
        /\ last'.op = "get_session_id" /\ last'.status_code = 200
        /\ last'.query = last.query
        /\ sessions' = sessions)
          => last'.response.session_id = last.response.session_id]_vars
\* What a heartbeat that reads the clock at value t stores as photo_time.
HeartbeatStampAt(t) == t - (t % TicksPerSecond)

\* C16: scan(0) run at clock value T does not report a session whose stored
\* photo_time is the one a heartbeat at T stores.  (The scan reads the table
\* only, and a heartbeat at T leaves photo_time = HeartbeatStampAt(T) there.)
C16_HeartbeatAtScanTimeNotExpired ==
    (ScanDone /\ last.minutes = 0) =>
        \A i \in ExpiredIds : sessions[i].photo_time # HeartbeatStampAt(last.now)
\* C17: every notification a scan queued is attempted, whatever fault the
\* delivery of another one met, and the scan answers 200.
C17_EveryTaskAttempted ==
    ScanDone =>
        /\ last.status_code = 200
        /\ "tasks_called" \in DOMAIN last
              => last.tasks_called = Len(last.background_tasks)

\* C18: a scan step leaves the session store as it was (it deletes nothing
\* and issues no id), and a scan at which no stored session is expired
\* queues no notification and returns the count 0.
C18_ScanReadsOnly ==
    [][(last'.op = "inactive_sessions" /\ <<last', prev'>> # <<last, prev>>) =>
          /\ sessions' = sessions
          /\ nextId' = nextId
          /\ ({i \in DOMAIN sessions :
                  /\ sessions[i].status = "active"
                  /\ sessions[i].photo_time < clock - last'.minutes * MinuteTicks} = {}
                => /\ last'.background_tasks = <<>>
                   /\ last'.response.expired_sessions_count = 0)]_vars

C18_Witness ==
    /\ ScanDone
    /\ sessions # <<>>
    /\ last.response.expired_sessions_count = 0
    /\ last.background_tasks = <<>>

\* The three operations that address a session by its id.
ByIdOps == {"get_photo_time", "pause_patrol", "end_patrol"}

\* The id a successful by-id response names.
AnsweredId(l) ==
    IF l.op = "get_photo_time" THEN l.response.session_id ELSE l.response.data.id

\* C19: every stored session has status "active" at every step; a by-id
\* operation answers 200 or 404, and 200 only for an id that was in the store
\* (so an ended session's id gets 404); a successful end_patrol leaves no row
\* with that id.
C19_StoredMeansActive ==
    [][/\ \A i \in DOMAIN sessions' : sessions'[i].status = "active"
       /\ (last' # last /\ last'.op \in ByIdOps) =>
             /\ last'.status_code \in {200, 404}
             /\ last'.status_code = 200 => AnsweredId(last') \in DOMAIN sessions
             /\ (last'.op = "end_patrol" /\ last'.status_code = 200)
                   => AnsweredId(last') \notin DOMAIN sessions']_vars

\* Every id has been issued, so the id that got 404 is one whose row is gone.
C19_Witness ==
    /\ last.op = "get_photo_time"
    /\ last.status_code = 404
    /\ nextId > MaxSessions
    /\ sessions # <<>>

\* C20: a step that answers 404 leaves the session store as it was, and a
\* step that answers a heartbeat with 200 changes nothing but the photo_time
\* of the session it names.
C20_NotFoundAndHeartbeatFrame ==
    [][/\ (last' # last /\ last'.status_code = 404) => sessions' = sessions
       /\ (last'.op = "pause_patrol" /\ last'.status_code = 200
              /\ <<last', sessions'>> # <<last, sessions>>) =>
             LET i == last'.response.data.id
             IN /\ DOMAIN sessions' = DOMAIN sessions
                /\ i \in DOMAIN sessions
                /\ \A j \in DOMAIN sessions \ {i} : sessions'[j] = sessions[j]
                /\ sessions'[i] = [sessions[i] EXCEPT
                                      !.photo_time = sessions'[i].photo_time]]_vars

C20_Witness ==
    /\ last.op = "pause_patrol"
    /\ last.status_code = 200
    /\ Cardinality(DOMAIN sessions) >= 2
    /\ \E i \in DOMAIN sessions :
          /\ i = last.response.data.id
          /\ sessions[i].photo_time # sessions[i].start_time
====
